---- MODULE Spec2Model ----
(***************************************************************************)
(* Model of examples/light/main/app_matter.cpp: the glue between the light *)
(* driver and the Matter attribute store.                                  *)
(*                                                                         *)
(*   - app_matter_init: the start-up sequence, one action per platform     *)
(*     call, each checked call succeeding or failing nondeterministically; *)
(*   - emberAfPostAttributeChangeCallback and its three per-cluster        *)
(*     handlers: inbound attribute notifications turned into driver calls; *)
(*   - update_matter_power/brightness/hue/saturation/temperature: driver   *)
(*     reports turned into attribute-store writes, each followed by an     *)
(*     assert on the write status.                                         *)
(*                                                                         *)
(* The attribute store, the driver and the platform managers are the       *)
(* environment.  Calls are synchronous: `pending` holds the one call in    *)
(* flight and only its callee may step while it is set.                    *)
(***************************************************************************)
EXTENDS Integers, Sequences, FiniteSets, TLC

VARIABLES
    threadBuild,   \* CHIP_DEVICE_CONFIG_ENABLE_THREAD of this build
    pc,            \* next step of app_matter_init, or "returned"
    calls,         \* platform calls app_matter_init has made, in order
    failedStep,    \* the checked step that failed, or "none"
    ret,           \* value returned by app_matter_init, or "none"
    registered,    \* callbacks registered under APP_DRIVER_SRC_MATTER
    store,         \* attribute store: endpoint -> attribute name -> value
    pending,       \* the call in flight
    dispatch,      \* what the last emberAfPostAttributeChangeCallback did
    report,        \* what the last update_matter_* did
    chain,         \* the outside stimulus being served and the store writes it caused
    aborted        \* an assert has failed: the process is gone

vars == <<threadBuild, pc, calls, failedStep, ret, registered, store,
          pending, dispatch, report, chain, aborted>>

initVars == <<pc, calls, failedStep, ret, registered>>
ioVars == <<store, pending, dispatch, report, chain, aborted>>

----------------------------------------------------------------------------
(* Bounds of the model *)

\* cap on the writes counted in one notify/update/write chain
MaxChainWrites == 3
\* attribute ids 0..MaxAttributeId are notified, besides the handled ones
MaxAttributeId == 2
\* cluster ids 0..MaxClusterId are notified, besides the handled ones
MaxClusterId == 1

----------------------------------------------------------------------------
(* Identifiers and ranges *)

ZCL_ON_OFF_CLUSTER_ID == 6
ZCL_LEVEL_CONTROL_CLUSTER_ID == 8
ZCL_COLOR_CONTROL_CLUSTER_ID == 768

ZCL_ON_OFF_ATTRIBUTE_ID == 0
ZCL_CURRENT_LEVEL_ATTRIBUTE_ID == 0
ZCL_COLOR_CONTROL_CURRENT_HUE_ATTRIBUTE_ID == 0
ZCL_COLOR_CONTROL_CURRENT_SATURATION_ATTRIBUTE_ID == 1
ZCL_COLOR_CONTROL_COLOR_TEMPERATURE_ATTRIBUTE_ID == 7

\* the endpoint every update_matter_* writes to
LIGHT_ENDPOINT == 1

HUE_MAX == 359
HUE_ATTRIBUTE_MAX == 254
SATURATION_MAX == 100
SATURATION_ATTRIBUTE_MAX == 254

\* numerator of both color temperature conversions
MIREDS_KELVIN == 1000000
\* floor asserted by update_matter_temperature
KELVIN_MIN == 18

UINT8 == 256
UINT16 == 65536

APP_DRIVER_SRC_MATTER == "APP_DRIVER_SRC_MATTER"
APP_DRIVER_SRC_LOCAL == "APP_DRIVER_SRC_LOCAL"

ESP_OK == "ESP_OK"
ESP_FAIL == "ESP_FAIL"
ESP_ERR_NO_MEM == "ESP_ERR_NO_MEM"

EMBER_ZCL_STATUS_SUCCESS == "EMBER_ZCL_STATUS_SUCCESS"
EMBER_ZCL_STATUS_FAILURE == "EMBER_ZCL_STATUS_FAILURE"

----------------------------------------------------------------------------
(* app_matter_init *)

\* a checked step succeeded, or an unchecked step ran: go on to `next`
Advance(step, next) ==
    /\ calls' = Append(calls, step)
    /\ pc' = next
    /\ UNCHANGED <<failedStep, ret, registered>>

\* FailureCode with the memory pool failure returning the generic code
FailureCode_Generic(step) == ESP_FAIL

\* the value of the return statement in the failure branch of each checked step
FailureCode(step) ==
    CASE step = "InitChipStack" -> ESP_FAIL
      [] step = "MemoryInit" -> ESP_ERR_NO_MEM
      [] step = "StartEventLoopTask" -> ESP_FAIL
      [] step = "InitThreadStack" -> ESP_FAIL
      [] step = "StartThreadTask" -> ESP_FAIL

\* a checked step failed: make the compensating calls, return the step's code
Fail(step, cleanup) ==
    /\ calls' = Append(calls, step) \o cleanup
    /\ pc' = "returned"
    /\ failedStep' = step
    /\ ret' = FailureCode(step)
    /\ UNCHANGED registered

InitChipStack ==
    /\ pc = "InitChipStack"
    /\ \E ok \in BOOLEAN :
          IF ok THEN Advance("InitChipStack", "SetBLEAdvertisingEnabled")
                ELSE Fail("InitChipStack", <<>>)
    /\ UNCHANGED <<threadBuild, ioVars>>

SetBLEAdvertisingEnabled ==
    /\ pc = "SetBLEAdvertisingEnabled"
    /\ Advance("SetBLEAdvertisingEnabled", "MemoryInit")
    /\ UNCHANGED <<threadBuild, ioVars>>

MemoryInit ==
    /\ pc = "MemoryInit"
    /\ \E ok \in BOOLEAN :
          IF ok THEN Advance("MemoryInit", "StartEventLoopTask")
                ELSE Fail("MemoryInit", <<>>)
    /\ UNCHANGED <<threadBuild, ioVars>>

\* StartEventLoopTask without the MemoryShutdown call in its failure branch
StartEventLoopTask_NoShutdown ==
    /\ pc = "StartEventLoopTask"
    /\ \E ok \in BOOLEAN :
          IF ok THEN Advance("StartEventLoopTask", "AddEventHandler")
                ELSE Fail("StartEventLoopTask", <<>>)
    /\ UNCHANGED <<threadBuild, ioVars>>

StartEventLoopTask ==
    /\ pc = "StartEventLoopTask"
    /\ \E ok \in BOOLEAN :
          IF ok THEN Advance("StartEventLoopTask", "AddEventHandler")
                ELSE Fail("StartEventLoopTask", <<"MemoryShutdown">>)
    /\ UNCHANGED <<threadBuild, ioVars>>

AddEventHandler ==
    /\ pc = "AddEventHandler"
    /\ Advance("AddEventHandler",
               IF threadBuild THEN "InitThreadStack" ELSE "InitServer")
    /\ UNCHANGED <<threadBuild, ioVars>>

\* InitThreadStack with the return missing from its failure branch
InitThreadStack_NoReturn ==
    /\ pc = "InitThreadStack"
    /\ \E ok \in BOOLEAN :
          /\ calls' = Append(calls, "InitThreadStack")
          /\ pc' = "StartThreadTask"
          /\ failedStep' = IF ok THEN failedStep ELSE "InitThreadStack"
          /\ UNCHANGED <<ret, registered>>
    /\ UNCHANGED <<threadBuild, ioVars>>

InitThreadStack ==
    /\ pc = "InitThreadStack"
    /\ \E ok \in BOOLEAN :
          IF ok THEN Advance("InitThreadStack", "StartThreadTask")
                ELSE Fail("InitThreadStack", <<>>)
    /\ UNCHANGED <<threadBuild, ioVars>>

StartThreadTask ==
    /\ pc = "StartThreadTask"
    /\ \E ok \in BOOLEAN :
          IF ok THEN Advance("StartThreadTask", "InitServer")
                ELSE Fail("StartThreadTask", <<>>)
    /\ UNCHANGED <<threadBuild, ioVars>>

InitServer ==
    /\ pc = "InitServer"
    /\ Advance("InitServer", "app_driver_register_src")
    /\ UNCHANGED <<threadBuild, ioVars>>

app_driver_register_src ==
    /\ pc = "app_driver_register_src"
    /\ calls' = Append(calls, "app_driver_register_src")
    /\ registered' = TRUE
    /\ pc' = "returned"
    /\ ret' = ESP_OK
    /\ UNCHANGED <<failedStep, threadBuild, ioVars>>

app_matter_init ==
    \/ InitChipStack
    \/ SetBLEAdvertisingEnabled
    \/ MemoryInit
    \/ StartEventLoopTask
    \/ AddEventHandler
    \/ InitThreadStack
    \/ StartThreadTask
    \/ InitServer
    \/ app_driver_register_src

----------------------------------------------------------------------------
(* Unit conversion *)

\* REMAP_TO_RANGE(value, from, to): value rescaled from [0, from] to [0, to],
\* rounded to the nearest integer
REMAP_TO_RANGE(value, from, to) == (2 * value * to + from) \div (2 * from)

\* the byte a uint8_t * points at, for a little-endian value
Byte(value) == value % UINT8

----------------------------------------------------------------------------
(* Calls in flight *)

NoPending ==
    [to |-> "none", endpoint |-> 0, cluster |-> 0, attribute |-> 0,
     kind |-> "none", value |-> 0, src |-> "none"]

\* the stack calling emberAfPostAttributeChangeCallback
Notification(endpoint, cluster, attribute, value) ==
    [to |-> "callback", endpoint |-> endpoint, cluster |-> cluster,
     attribute |-> attribute, kind |-> "none", value |-> value, src |-> "none"]

\* app_driver_update_and_report_<kind>(value, src)
DriverCall(kind, value, src) ==
    [to |-> "driver", endpoint |-> 0, cluster |-> 0, attribute |-> 0,
     kind |-> kind, value |-> value, src |-> src]

\* the driver calling the registered update_<kind>(value)
ReportCall(kind, value) ==
    [to |-> "matter", endpoint |-> 0, cluster |-> 0, attribute |-> 0,
     kind |-> kind, value |-> value, src |-> "none"]

NoDispatch ==
    [cluster |-> -1, attribute |-> -1, value |-> 0,
     infos |-> 0, warnings |-> 0, driver |-> NoPending]

NoReport ==
    [kind |-> "none", input |-> 0, issued |-> 0, endpoint |-> 0, cluster |-> 0,
     attribute |-> 0, value |-> 0, status |-> "none"]

----------------------------------------------------------------------------
(* Inbound: attribute notifications to driver calls *)

\* what a handler did: the driver call it made, the warnings it logged
Handled(call) == [driver |-> call, warnings |-> 0]
Unknown == [driver |-> NoPending, warnings |-> 1]
Ignored == [driver |-> NoPending, warnings |-> 0]

on_on_off_attribute_changed(endpoint, attribute, value) ==
    IF attribute = ZCL_ON_OFF_ATTRIBUTE_ID
    THEN Handled(DriverCall("power", IF Byte(value) # 0 THEN 1 ELSE 0,
                            APP_DRIVER_SRC_MATTER))
    ELSE Unknown

on_level_control_atrribute_changed(endpoint, attribute, value) ==
    IF attribute = ZCL_CURRENT_LEVEL_ATTRIBUTE_ID
    THEN Handled(DriverCall("brightness", Byte(value), APP_DRIVER_SRC_MATTER))
    ELSE Unknown

\* emberAfReadServerAttribute of the color temperature at `endpoint`
ReadTemperature(endpoint) == store[endpoint].temperature

\* on_color_control_attribute_changed converting the notified value, not
\* the stored one
on_color_control_attribute_changed_Notified(endpoint, attribute, value) ==
    IF attribute = ZCL_COLOR_CONTROL_CURRENT_HUE_ATTRIBUTE_ID
    THEN Handled(DriverCall("hue",
             REMAP_TO_RANGE(Byte(value), HUE_ATTRIBUTE_MAX, HUE_MAX) % UINT16,
             APP_DRIVER_SRC_MATTER))
    ELSE IF attribute = ZCL_COLOR_CONTROL_CURRENT_SATURATION_ATTRIBUTE_ID
    THEN Handled(DriverCall("saturation",
             REMAP_TO_RANGE(Byte(value), SATURATION_ATTRIBUTE_MAX, SATURATION_MAX) % UINT8,
             APP_DRIVER_SRC_MATTER))
    ELSE IF attribute = ZCL_COLOR_CONTROL_COLOR_TEMPERATURE_ATTRIBUTE_ID
    THEN LET temp_mireds == value % UINT16
             color_temp == MIREDS_KELVIN \div (IF temp_mireds = 0 THEN 1 ELSE temp_mireds)
         IN  Handled(DriverCall("temperature", color_temp, APP_DRIVER_SRC_MATTER))
    ELSE Unknown

\* on_color_control_attribute_changed tagging its hue update as a local one
on_color_control_attribute_changed_LocalHue(endpoint, attribute, value) ==
    IF attribute = ZCL_COLOR_CONTROL_CURRENT_HUE_ATTRIBUTE_ID
    THEN Handled(DriverCall("hue",
             REMAP_TO_RANGE(Byte(value), HUE_ATTRIBUTE_MAX, HUE_MAX) % UINT16,
             APP_DRIVER_SRC_LOCAL))
    ELSE IF attribute = ZCL_COLOR_CONTROL_CURRENT_SATURATION_ATTRIBUTE_ID
    THEN Handled(DriverCall("saturation",
             REMAP_TO_RANGE(Byte(value), SATURATION_ATTRIBUTE_MAX, SATURATION_MAX) % UINT8,
             APP_DRIVER_SRC_MATTER))
    ELSE IF attribute = ZCL_COLOR_CONTROL_COLOR_TEMPERATURE_ATTRIBUTE_ID
    THEN LET temp_mireds == ReadTemperature(endpoint)
             color_temp == MIREDS_KELVIN \div (IF temp_mireds = 0 THEN 1 ELSE temp_mireds)
         IN  Handled(DriverCall("temperature", color_temp, APP_DRIVER_SRC_MATTER))
    ELSE Unknown

on_color_control_attribute_changed(endpoint, attribute, value) ==
    IF attribute = ZCL_COLOR_CONTROL_CURRENT_HUE_ATTRIBUTE_ID
    THEN Handled(DriverCall("hue",
             REMAP_TO_RANGE(Byte(value), HUE_ATTRIBUTE_MAX, HUE_MAX) % UINT16,
             APP_DRIVER_SRC_MATTER))
    ELSE IF attribute = ZCL_COLOR_CONTROL_CURRENT_SATURATION_ATTRIBUTE_ID
    THEN Handled(DriverCall("saturation",
             REMAP_TO_RANGE(Byte(value), SATURATION_ATTRIBUTE_MAX, SATURATION_MAX) % UINT8,
             APP_DRIVER_SRC_MATTER))
    ELSE IF attribute = ZCL_COLOR_CONTROL_COLOR_TEMPERATURE_ATTRIBUTE_ID
    THEN LET temp_mireds == ReadTemperature(endpoint)
             color_temp == MIREDS_KELVIN \div (IF temp_mireds = 0 THEN 1 ELSE temp_mireds)
         IN  Handled(DriverCall("temperature", color_temp, APP_DRIVER_SRC_MATTER))
    ELSE Unknown

\* Route with the last cluster test missing
Route_NoClusterTest(endpoint, cluster, attribute, value) ==
    IF cluster = ZCL_ON_OFF_CLUSTER_ID
    THEN on_on_off_attribute_changed(endpoint, attribute, value)
    ELSE IF cluster = ZCL_LEVEL_CONTROL_CLUSTER_ID
    THEN on_level_control_atrribute_changed(endpoint, attribute, value)
    ELSE on_color_control_attribute_changed(endpoint, attribute, value)

\* the router of emberAfPostAttributeChangeCallback
Route(endpoint, cluster, attribute, value) ==
    IF cluster = ZCL_ON_OFF_CLUSTER_ID
    THEN on_on_off_attribute_changed(endpoint, attribute, value)
    ELSE IF cluster = ZCL_LEVEL_CONTROL_CLUSTER_ID
    THEN on_level_control_atrribute_changed(endpoint, attribute, value)
    ELSE IF cluster = ZCL_COLOR_CONTROL_CLUSTER_ID
    THEN on_color_control_attribute_changed(endpoint, attribute, value)
    ELSE Ignored

emberAfPostAttributeChangeCallback ==
    /\ ~aborted
    /\ pending.to = "callback"
    /\ LET done == Route(pending.endpoint, pending.cluster, pending.attribute,
                         pending.value)
       IN  /\ dispatch' = [cluster |-> pending.cluster,
                           attribute |-> pending.attribute,
                           value |-> pending.value,
                           infos |-> 1,
                           warnings |-> done.warnings,
                           driver |-> done.driver]
           /\ pending' = done.driver
    /\ UNCHANGED <<threadBuild, initVars, store, report, chain, aborted>>

----------------------------------------------------------------------------
(* The driver *)

\* app_driver_update_and_report_<kind>(value, src): the change is reported
\* through the callbacks of every registered source but the one it came from
app_driver_update_and_report ==
    /\ ~aborted
    /\ pending.to = "driver"
    /\ pending' = IF registered /\ pending.src # APP_DRIVER_SRC_MATTER
                  THEN ReportCall(pending.kind, pending.value)
                  ELSE NoPending
    /\ UNCHANGED <<threadBuild, initVars, store, dispatch, report, chain, aborted>>

----------------------------------------------------------------------------
(* Outbound: driver reports to attribute-store writes *)

\* the stack's emberAfWriteAttribute on `endpoint`, then assert(status ==
\* EMBER_ZCL_STATUS_SUCCESS).  A successful write changes the store and makes
\* the stack post the attribute change; a failed one ends in the abort.
WriteAttributeAndAssert(kind, input, endpoint, cluster, attribute, value) ==
    \E status \in {EMBER_ZCL_STATUS_SUCCESS, EMBER_ZCL_STATUS_FAILURE} :
        /\ report' = [kind |-> kind, input |-> input, issued |-> 1,
                      endpoint |-> endpoint, cluster |-> cluster,
                      attribute |-> attribute, value |-> value, status |-> status]
        /\ chain' = [chain EXCEPT !.writes = @ + 1]
        /\ IF status = EMBER_ZCL_STATUS_SUCCESS
           THEN /\ store' = [store EXCEPT ![endpoint][kind] = value]
                /\ pending' = Notification(endpoint, cluster, attribute, value)
                /\ aborted' = FALSE
           ELSE /\ store' = store
                /\ pending' = NoPending
                /\ aborted' = TRUE

\* the driver calling update_<kind>, with room left in the chain counter
Reporting(kind) ==
    /\ ~aborted
    /\ pending.to = "matter"
    /\ pending.kind = kind
    /\ chain.writes < MaxChainWrites

update_matter_power ==
    /\ Reporting("power")
    /\ WriteAttributeAndAssert("power", pending.value, LIGHT_ENDPOINT,
           ZCL_ON_OFF_CLUSTER_ID, ZCL_ON_OFF_ATTRIBUTE_ID,
           IF pending.value # 0 THEN 1 ELSE 0)
    /\ UNCHANGED <<threadBuild, initVars, dispatch>>

update_matter_brightness ==
    /\ Reporting("brightness")
    /\ WriteAttributeAndAssert("brightness", pending.value, LIGHT_ENDPOINT,
           ZCL_LEVEL_CONTROL_CLUSTER_ID, ZCL_CURRENT_LEVEL_ATTRIBUTE_ID,
           pending.value % UINT8)
    /\ UNCHANGED <<threadBuild, initVars, dispatch>>

\* update_matter_hue with the rescaled hue truncated
update_matter_hue_Truncated ==
    /\ Reporting("hue")
    /\ LET hue_attribute ==
               (((pending.value % UINT16) * HUE_ATTRIBUTE_MAX) \div HUE_MAX) % UINT8
       IN  WriteAttributeAndAssert("hue", pending.value, LIGHT_ENDPOINT,
               ZCL_COLOR_CONTROL_CLUSTER_ID,
               ZCL_COLOR_CONTROL_CURRENT_HUE_ATTRIBUTE_ID, hue_attribute)
    /\ UNCHANGED <<threadBuild, initVars, dispatch>>

\* update_matter_hue writing the degrees as they are
update_matter_hue_NoRemap ==
    /\ Reporting("hue")
    /\ WriteAttributeAndAssert("hue", pending.value, LIGHT_ENDPOINT,
           ZCL_COLOR_CONTROL_CLUSTER_ID,
           ZCL_COLOR_CONTROL_CURRENT_HUE_ATTRIBUTE_ID, pending.value % UINT8)
    /\ UNCHANGED <<threadBuild, initVars, dispatch>>

update_matter_hue ==
    /\ Reporting("hue")
    /\ LET hue_attribute ==
               REMAP_TO_RANGE(pending.value % UINT16, HUE_MAX, HUE_ATTRIBUTE_MAX) % UINT8
       IN  WriteAttributeAndAssert("hue", pending.value, LIGHT_ENDPOINT,
               ZCL_COLOR_CONTROL_CLUSTER_ID,
               ZCL_COLOR_CONTROL_CURRENT_HUE_ATTRIBUTE_ID, hue_attribute)
    /\ UNCHANGED <<threadBuild, initVars, dispatch>>

\* update_matter_saturation rescaling to the hue range
update_matter_saturation_HueRange ==
    /\ Reporting("saturation")
    /\ LET saturation_attribute ==
               REMAP_TO_RANGE(pending.value % UINT8, HUE_MAX,
                              SATURATION_ATTRIBUTE_MAX) % UINT8
       IN  WriteAttributeAndAssert("saturation", pending.value, LIGHT_ENDPOINT,
               ZCL_COLOR_CONTROL_CLUSTER_ID,
               ZCL_COLOR_CONTROL_CURRENT_SATURATION_ATTRIBUTE_ID,
               saturation_attribute)
    /\ UNCHANGED <<threadBuild, initVars, dispatch>>

update_matter_saturation ==
    /\ Reporting("saturation")
    /\ LET saturation_attribute ==
               REMAP_TO_RANGE(pending.value % UINT8, SATURATION_MAX,
                              SATURATION_ATTRIBUTE_MAX) % UINT8
       IN  WriteAttributeAndAssert("saturation", pending.value, LIGHT_ENDPOINT,
               ZCL_COLOR_CONTROL_CLUSTER_ID,
               ZCL_COLOR_CONTROL_CURRENT_SATURATION_ATTRIBUTE_ID,
               saturation_attribute)
    /\ UNCHANGED <<threadBuild, initVars, dispatch>>

\* update_matter_temperature asserting only that the division is defined
update_matter_temperature_NonZero ==
    /\ Reporting("temperature")
    /\ IF pending.value >= 1
       THEN LET temp_mireds == (MIREDS_KELVIN \div pending.value) % UINT16
            IN  WriteAttributeAndAssert("temperature", pending.value,
                    LIGHT_ENDPOINT, ZCL_COLOR_CONTROL_CLUSTER_ID,
                    ZCL_COLOR_CONTROL_COLOR_TEMPERATURE_ATTRIBUTE_ID, temp_mireds)
       ELSE /\ report' = [NoReport EXCEPT !.kind = "temperature",
                                          !.input = pending.value]
            /\ aborted' = TRUE
            /\ pending' = NoPending
            /\ UNCHANGED <<store, chain>>
    /\ UNCHANGED <<threadBuild, initVars, dispatch>>

update_matter_temperature ==
    /\ Reporting("temperature")
    /\ IF pending.value >= KELVIN_MIN
       THEN LET temp_mireds == (MIREDS_KELVIN \div pending.value) % UINT16
            IN  WriteAttributeAndAssert("temperature", pending.value,
                    LIGHT_ENDPOINT, ZCL_COLOR_CONTROL_CLUSTER_ID,
                    ZCL_COLOR_CONTROL_COLOR_TEMPERATURE_ATTRIBUTE_ID, temp_mireds)
       ELSE /\ report' = [NoReport EXCEPT !.kind = "temperature",
                                          !.input = pending.value]
            /\ aborted' = TRUE
            /\ pending' = NoPending
            /\ UNCHANGED <<store, chain>>
    /\ UNCHANGED <<threadBuild, initVars, dispatch>>

----------------------------------------------------------------------------
(* The environment: the attribute store's clients and the local sources *)

Kinds == {"power", "brightness", "hue", "saturation", "temperature"}

\* the attribute of the light endpoint that (cluster, attribute) names
KindOf(cluster, attribute) ==
    IF cluster = ZCL_ON_OFF_CLUSTER_ID /\ attribute = ZCL_ON_OFF_ATTRIBUTE_ID
    THEN "power"
    ELSE IF cluster = ZCL_LEVEL_CONTROL_CLUSTER_ID
            /\ attribute = ZCL_CURRENT_LEVEL_ATTRIBUTE_ID
    THEN "brightness"
    ELSE IF cluster = ZCL_COLOR_CONTROL_CLUSTER_ID
            /\ attribute = ZCL_COLOR_CONTROL_CURRENT_HUE_ATTRIBUTE_ID
    THEN "hue"
    ELSE IF cluster = ZCL_COLOR_CONTROL_CLUSTER_ID
            /\ attribute = ZCL_COLOR_CONTROL_CURRENT_SATURATION_ATTRIBUTE_ID
    THEN "saturation"
    ELSE IF cluster = ZCL_COLOR_CONTROL_CLUSTER_ID
            /\ attribute = ZCL_COLOR_CONTROL_COLOR_TEMPERATURE_ATTRIBUTE_ID
    THEN "temperature"
    ELSE "none"

ClusterIds ==
    (0 .. MaxClusterId) \cup {ZCL_ON_OFF_CLUSTER_ID, ZCL_LEVEL_CONTROL_CLUSTER_ID,
                              ZCL_COLOR_CONTROL_CLUSTER_ID}
AttributeIds ==
    (0 .. MaxAttributeId) \cup {ZCL_COLOR_CONTROL_COLOR_TEMPERATURE_ATTRIBUTE_ID}

\* values a client of the store writes, by attribute
WireSamples ==
    [power |-> {0, 1}, brightness |-> {0, 254}, hue |-> {0, 85, 254},
     saturation |-> {0, 127, 254}, temperature |-> {0, 250, 65279}]

\* values the notification's value pointer leads to
NotifiedSamples == {1, 85, 4000}

\* values a local source gives the driver, by quantity
LocalSamples ==
    [power |-> {0, 1}, brightness |-> {0, 254}, hue |-> {0, 120, 359},
     saturation |-> {0, 50, 100}, temperature |-> {0, 17, 18, 4000}]

ServerStarted == \E i \in 1 .. Len(calls) : calls[i] = "InitServer"

NewChain(origin) == [origin |-> origin, writes |-> 0]

\* a client of the server writes an attribute of the light endpoint and the
\* stack notifies the application.  Unless `tied`, the value handed to the
\* callback is not the stored one: another task may write between the two.
ProtocolWrite(clusters, attributes, stored, tied) ==
    /\ ~aborted
    /\ ServerStarted
    /\ pending.to = "none"
    /\ \E cluster \in clusters, attribute \in attributes :
          LET kind == KindOf(cluster, attribute)
          IN  \E v \in (IF kind = "none" THEN {0} ELSE stored[kind]) :
                 /\ store' = IF kind = "none" THEN store
                              ELSE [store EXCEPT ![LIGHT_ENDPOINT][kind] = v]
                 /\ \E n \in (IF tied THEN {v} ELSE NotifiedSamples) :
                       pending' = Notification(LIGHT_ENDPOINT, cluster, attribute, n)
    /\ chain' = NewChain("protocol")
    /\ dispatch' = NoDispatch
    /\ report' = NoReport
    /\ UNCHANGED <<threadBuild, initVars, aborted>>

\* a local source (a button, the console) changes the light through the
\* driver; local sources are served once start-up has returned.  With `keep`
\* the record of the last notification handled stays beside the new chain's.
LocalChange(values, keep) ==
    /\ ~aborted
    /\ pc = "returned"
    /\ pending.to = "none"
    /\ \E kind \in Kinds : \E v \in values[kind] :
          pending' = DriverCall(kind, v, APP_DRIVER_SRC_LOCAL)
    /\ chain' = NewChain("local")
    /\ dispatch' = IF keep THEN dispatch ELSE NoDispatch
    /\ report' = NoReport
    /\ UNCHANGED <<threadBuild, initVars, store, aborted>>

----------------------------------------------------------------------------
(* The program *)

Init ==
    /\ threadBuild \in BOOLEAN
    /\ pc = "InitChipStack"
    /\ calls = <<>>
    /\ failedStep = "none"
    /\ ret = "none"
    /\ registered = FALSE
    /\ store = [e \in {LIGHT_ENDPOINT} |-> [k \in Kinds |-> 0]]
    /\ pending = NoPending
    /\ dispatch = NoDispatch
    /\ report = NoReport
    /\ chain = NewChain("none")
    /\ aborted = FALSE

Inbound ==
    \/ emberAfPostAttributeChangeCallback
    \/ app_driver_update_and_report

Outbound ==
    \/ update_matter_power
    \/ update_matter_brightness
    \/ update_matter_hue
    \/ update_matter_saturation
    \/ update_matter_temperature

Next ==
    \/ app_matter_init
    \/ Inbound
    \/ Outbound
    \/ ProtocolWrite(ClusterIds, AttributeIds, WireSamples, FALSE)
    \/ LocalChange(LocalSamples, FALSE)

Spec == Init /\ [][Next]_vars

----------------------------------------------------------------------------
(* The running light, over the whole range of one quantity *)

DefaultStore == [e \in {LIGHT_ENDPOINT} |-> [k \in Kinds |-> 0]]

\* start-up has returned ESP_OK (build without Thread); the store holds `st`
\* and the call `call` is in flight
Running(st, call, origin) ==
    /\ threadBuild = FALSE
    /\ pc = "returned"
    /\ calls = <<"InitChipStack", "SetBLEAdvertisingEnabled", "MemoryInit",
                 "StartEventLoopTask", "AddEventHandler", "InitServer",
                 "app_driver_register_src">>
    /\ failedStep = "none"
    /\ ret = ESP_OK
    /\ registered = TRUE
    /\ store = st
    /\ pending = call
    /\ dispatch = NoDispatch
    /\ report = NoReport
    /\ chain = NewChain(origin)
    /\ aborted = FALSE

Only(kind, values) == [k \in Kinds |-> IF k = kind THEN values ELSE {}]

\* hue: every wire value from the protocol side, every degree from a local source
InitHue == Running(DefaultStore, NoPending, "none")

NextHue ==
    \/ ProtocolWrite({ZCL_COLOR_CONTROL_CLUSTER_ID},
                     {ZCL_COLOR_CONTROL_CURRENT_HUE_ATTRIBUTE_ID},
                     Only("hue", 0 .. HUE_ATTRIBUTE_MAX), TRUE)
    \/ LocalChange(Only("hue", 0 .. HUE_MAX), TRUE)
    \/ emberAfPostAttributeChangeCallback
    \/ app_driver_update_and_report
    \/ update_matter_hue

SpecHue == InitHue /\ [][NextHue]_vars

\* saturation: every wire value, every percentage
InitSaturation == Running(DefaultStore, NoPending, "none")

NextSaturation ==
    \/ ProtocolWrite({ZCL_COLOR_CONTROL_CLUSTER_ID},
                     {ZCL_COLOR_CONTROL_CURRENT_SATURATION_ATTRIBUTE_ID},
                     Only("saturation", 0 .. SATURATION_ATTRIBUTE_MAX), TRUE)
    \/ LocalChange(Only("saturation", 0 .. SATURATION_MAX), TRUE)
    \/ emberAfPostAttributeChangeCallback
    \/ app_driver_update_and_report
    \/ update_matter_saturation

SpecSaturation == InitSaturation /\ [][NextSaturation]_vars

\* color temperature: the stack is notifying a change while the store holds
\* any 16-bit mireds value
InitTemperature ==
    \E m \in 0 .. (UINT16 - 1) : \E n \in NotifiedSamples :
        Running([DefaultStore EXCEPT ![LIGHT_ENDPOINT].temperature = m],
                Notification(LIGHT_ENDPOINT, ZCL_COLOR_CONTROL_CLUSTER_ID,
                             ZCL_COLOR_CONTROL_COLOR_TEMPERATURE_ATTRIBUTE_ID, n),
                "protocol")

NextTemperature ==
    \/ ProtocolWrite({ZCL_COLOR_CONTROL_CLUSTER_ID},
                     {ZCL_COLOR_CONTROL_COLOR_TEMPERATURE_ATTRIBUTE_ID},
                     WireSamples, FALSE)
    \/ emberAfPostAttributeChangeCallback
    \/ app_driver_update_and_report

SpecTemperature == InitTemperature /\ [][NextTemperature]_vars

----------------------------------------------------------------------------
(* Properties of app_matter_init *)

Count(seq, x) == Cardinality({i \in 1 .. Len(seq) : seq[i] = x})

IsPrefix(a, b) == Len(a) <= Len(b) /\ \A i \in 1 .. Len(a) : a[i] = b[i]

CheckedSteps ==
    {"InitChipStack", "MemoryInit", "StartEventLoopTask"}
    \cup (IF threadBuild THEN {"InitThreadStack", "StartThreadTask"} ELSE {})

Failed == pc = "returned" /\ failedStep # "none"

C2_ShutdownOnlyOnEventLoopFailure ==
    /\ Count(calls, "MemoryShutdown")
          = IF failedStep = "StartEventLoopTask" THEN 1 ELSE 0
    /\ failedStep = "StartEventLoopTask" =>
          /\ IsPrefix(<<"InitChipStack", "SetBLEAdvertisingEnabled", "MemoryInit",
                        "StartEventLoopTask", "MemoryShutdown">>, calls)
          /\ ret = ESP_FAIL

C2_Witness ==
    /\ Failed
    /\ failedStep = "StartEventLoopTask"
    /\ Count(calls, "MemoryShutdown") = 1

\* the order of start-up in this build
StartupOrder ==
    <<"InitChipStack", "SetBLEAdvertisingEnabled", "MemoryInit",
      "StartEventLoopTask", "AddEventHandler">>
    \o (IF threadBuild THEN <<"InitThreadStack", "StartThreadTask">> ELSE <<>>)
    \o <<"InitServer", "app_driver_register_src">>

IsStep(c) == c # "MemoryShutdown"
StepsRun == SelectSeq(calls, IsStep)

\* C9: the steps run in the fixed order; once a checked step has failed the
\* function has returned with that step the last one run; InitServer and
\* app_driver_register_src have each run exactly once if and only if the
\* function returned ESP_OK.
C9_OrderedFirstFailureStops ==
    /\ IsPrefix(StepsRun, StartupOrder)
    /\ failedStep # "none" =>
          /\ pc = "returned"
          /\ StepsRun # <<>>
          /\ StepsRun[Len(StepsRun)] = failedStep
    /\ pc = "returned" =>
          /\ (ret = ESP_OK) = (Count(calls, "InitServer") = 1)
          /\ (ret = ESP_OK) = (Count(calls, "app_driver_register_src") = 1)
          /\ (ret = ESP_OK) = registered
          /\ ret # ESP_OK =>
                /\ Count(calls, "InitServer") = 0
                /\ Count(calls, "app_driver_register_src") = 0
    /\ pc # "returned" => ret = "none" /\ ~registered

C9_Witness ==
    /\ threadBuild
    /\ pc = "returned"
    /\ ret = ESP_OK
    /\ StepsRun = StartupOrder

----------------------------------------------------------------------------
(* Properties of the inbound dispatcher *)

Recognized ==
    {<<ZCL_ON_OFF_CLUSTER_ID, ZCL_ON_OFF_ATTRIBUTE_ID>>,
     <<ZCL_LEVEL_CONTROL_CLUSTER_ID, ZCL_CURRENT_LEVEL_ATTRIBUTE_ID>>,
     <<ZCL_COLOR_CONTROL_CLUSTER_ID, ZCL_COLOR_CONTROL_CURRENT_HUE_ATTRIBUTE_ID>>,
     <<ZCL_COLOR_CONTROL_CLUSTER_ID, ZCL_COLOR_CONTROL_CURRENT_SATURATION_ATTRIBUTE_ID>>,
     <<ZCL_COLOR_CONTROL_CLUSTER_ID, ZCL_COLOR_CONTROL_COLOR_TEMPERATURE_ATTRIBUTE_ID>>}

HandledClusters ==
    {ZCL_ON_OFF_CLUSTER_ID, ZCL_LEVEL_CONTROL_CLUSTER_ID, ZCL_COLOR_CONTROL_CLUSTER_ID}

Dispatched == dispatch.infos = 1

\* C7: a notification outside the recognized (cluster, attribute) pairs makes
\* no driver call; it logs exactly one warning when the cluster is On/Off,
\* Level-Control or Color-Control, and none when it is any other cluster.
C7_UnrecognizedDropped ==
    (Dispatched /\ <<dispatch.cluster, dispatch.attribute>> \notin Recognized) =>
        /\ dispatch.driver = NoPending
        /\ pending = NoPending
        /\ dispatch.warnings
              = IF dispatch.cluster \in HandledClusters THEN 1 ELSE 0

C7_Witness ==
    /\ Dispatched
    /\ dispatch.cluster = ZCL_ON_OFF_CLUSTER_ID
    /\ dispatch.attribute # ZCL_ON_OFF_ATTRIBUTE_ID
    /\ dispatch.warnings = 1
    /\ dispatch.driver = NoPending

\* C10: every driver call the dispatcher makes carries APP_DRIVER_SRC_MATTER;
\* serving a notification from the protocol side this layer writes nothing to
\* the store, and serving any one stimulus it writes at most once.
C10_ProtocolOriginNoFeedback ==
    /\ dispatch.driver.to = "driver" => dispatch.driver.src = APP_DRIVER_SRC_MATTER
    /\ pending.to = "driver" /\ Dispatched => pending.src = APP_DRIVER_SRC_MATTER
    /\ chain.origin = "protocol" => chain.writes = 0 /\ report = NoReport
    /\ chain.writes <= 1

C10_Witness ==
    /\ registered
    /\ chain.origin = "protocol"
    /\ dispatch.driver.to = "driver"
    /\ dispatch.driver.kind = "hue"
    /\ pending = NoPending
    /\ chain.writes = 0

----------------------------------------------------------------------------
(* Properties of the outbound reports *)

Reported == report.kind # "none"

WriteFailed ==
    Reported /\ report.issued = 1 /\ report.status # EMBER_ZCL_STATUS_SUCCESS

KelvinLow == Reported /\ report.kind = "temperature" /\ report.input < 18

\* C8: the process has aborted exactly when the last report's write returned
\* a status other than success or the report was a temperature below 18 K;
\* in the latter case no write was issued; a report issues at most one write,
\* so a failed write is not retried.
C8_AbortIffWriteFailsOrKelvinLow ==
    /\ aborted = (WriteFailed \/ KelvinLow)
    /\ KelvinLow =>
          /\ report.issued = 0
          /\ chain.writes = 0
    /\ Reported => (report.issued <= 1 /\ chain.writes = report.issued)

C8_Witness ==
    /\ aborted
    /\ report.kind = "temperature"
    /\ report.input = 17
    /\ report.issued = 0

----------------------------------------------------------------------------
(* Properties of the conversions *)

Abs(x) == IF x < 0 THEN -x ELSE x

\* q is the integer nearest to n / d
Nearest(q, n, d) == 2 * Abs(d * q - n) <= d

HueReported == report.kind = "hue"

\* C3: a hue report of h degrees, h in 0..359, issues exactly one write, on
\* endpoint 1, to the color-control current-hue attribute, of the integer
\* nearest to h * 254 / 359; 120 degrees are written as 85.
C3_HueReportWritesRescaledHue ==
    HueReported =>
        /\ report.input \in 0 .. 359
        /\ report.issued = 1
        /\ chain.writes = 1
        /\ report.endpoint = 1
        /\ report.cluster = ZCL_COLOR_CONTROL_CLUSTER_ID
        /\ report.attribute = ZCL_COLOR_CONTROL_CURRENT_HUE_ATTRIBUTE_ID
        /\ Nearest(report.value, report.input * 254, 359)
        /\ report.input = 120 => report.value = 85
        /\ report.status = EMBER_ZCL_STATUS_SUCCESS =>
              store[1].hue = report.value

C3_Witness ==
    /\ HueReported
    /\ report.input = 120
    /\ report.value = 85
    /\ report.status = EMBER_ZCL_STATUS_SUCCESS
    /\ store[1].hue = 85

HueDispatched ==
    /\ Dispatched
    /\ dispatch.cluster = ZCL_COLOR_CONTROL_CLUSTER_ID
    /\ dispatch.attribute = ZCL_COLOR_CONTROL_CURRENT_HUE_ATTRIBUTE_ID

\* C5: when the degrees the dispatcher gave the driver for a wire hue v are
\* reported back through update_matter_hue, the value written is within 1
\* of v, for every v in 0..254.
C5_HueRoundTrip ==
    (HueDispatched /\ HueReported /\ report.input = dispatch.driver.value) =>
        /\ dispatch.value \in 0 .. 254
        /\ Abs(report.value - dispatch.value) <= 1

C5_Witness ==
    /\ HueDispatched
    /\ HueReported
    /\ dispatch.value = 253
    /\ report.input = dispatch.driver.value
    /\ report.input = 358

SaturationReported == report.kind = "saturation"

SaturationDispatched ==
    /\ Dispatched
    /\ dispatch.cluster = ZCL_COLOR_CONTROL_CLUSTER_ID
    /\ dispatch.attribute = ZCL_COLOR_CONTROL_CURRENT_SATURATION_ATTRIBUTE_ID

\* C6: when the percentage the dispatcher gave the driver for a wire
\* saturation v is reported back through update_matter_saturation, the value
\* written is within 1 of v, for every v in 0..254.
C6_SaturationRoundTrip ==
    (SaturationDispatched /\ SaturationReported
        /\ report.input = dispatch.driver.value) =>
        /\ dispatch.value \in 0 .. 254
        /\ dispatch.driver.value \in 0 .. 100
        /\ Abs(report.value - dispatch.value) <= 1

C6_Witness ==
    /\ SaturationDispatched
    /\ SaturationReported
    /\ dispatch.value = 1
    /\ report.input = dispatch.driver.value
    /\ report.value = 0

TemperatureDispatched ==
    /\ Dispatched
    /\ dispatch.cluster = ZCL_COLOR_CONTROL_CLUSTER_ID
    /\ dispatch.attribute = ZCL_COLOR_CONTROL_COLOR_TEMPERATURE_ATTRIBUTE_ID

StoredMireds == store[1].temperature

====
